---- MODULE Spec2Model ----
(***************************************************************************)
(* Model of src/main.py: the payslip extraction service.                   *)
(*                                                                         *)
(* Text is a sequence of tokens.  A token is one character, except that    *)
(* each literal label of the three patterns is one token:                  *)
(*   "N"  = "Nome do Colaborador" / "Nome do Funcionario"                  *)
(*   "C"  = "CPF:"                                                         *)
(*   "S"  = "SALARIO LIQUIDO"                                              *)
(*   "$"  = "R$"                                                           *)
(* " " and "\n" are the whitespace characters ("\r" and the other         *)
(* whitespace are left out), "A" is a letter.                              *)
(* An Optional value is a sequence: <<>> is None, <<x>> is the value x.    *)
(* A decimal number is [mant, scale], the value mant / 10^scale, kept      *)
(* canonical (no trailing zero behind the point) so that equal numbers     *)
(* are equal records.                                                      *)
(***************************************************************************)
EXTENDS Integers, Sequences, FiniteSets, TLC

VARIABLES
    doc,        \* the uploaded document (bytes of the request, as parsed structure)
    pc,         \* position of the /extract handler
    i,          \* loop variable of /extract
    results,    \* results list of /extract
    outcome,    \* response of /extract
    spc,        \* position of the /extract/page handler
    sindex,     \* the 1-based index query parameter of /extract/page
    sresp,      \* response of /extract/page
    call,       \* a direct call of one of the module's functions: [fn, arg]
    ret         \* what that call returned

vars == <<doc, pc, i, results, outcome, spc, sindex, sresp, call, ret>>

-----------------------------------------------------------------------------
(* Bounds of the model *)

MaxPages == 2
MaxTextLen == 4
MaxNumLen == 4

-----------------------------------------------------------------------------
(* Characters and strings *)

None == <<>>
Some(x) == <<x>>

Digits == {"0", "1", "2", "3", "4", "5", "6", "7", "8", "9"}

DigitVal(c) ==
    CASE c = "0" -> 0 [] c = "1" -> 1 [] c = "2" -> 2 [] c = "3" -> 3
      [] c = "4" -> 4 [] c = "5" -> 5 [] c = "6" -> 6 [] c = "7" -> 7
      [] c = "8" -> 8 [] c = "9" -> 9

IsSpace(c) == c \in {" ", "\n"}

IsNewline(c) == c = "\n"

\* all sequences over alphabet A of length at most n
RECURSIVE StringsUpTo(_, _)
StringsUpTo(A, n) ==
    IF n = 0 THEN {<<>>}
    ELSE LET shorter == StringsUpTo(A, n - 1)
         IN  shorter \cup {Append(s, c) : s \in shorter, c \in A}

\* s[a..b], empty when a > b
Slice(s, a, b) == [k \in 1..(b - a + 1) |-> s[a + k - 1]]

\* str.strip(): drops the whitespace at both ends
RECURSIVE LStrip(_)
LStrip(s) ==
    IF s # <<>> /\ IsSpace(Head(s)) THEN LStrip(Tail(s)) ELSE s

RECURSIVE RStrip(_)
RStrip(s) ==
    IF s # <<>> /\ IsSpace(s[Len(s)]) THEN RStrip(Slice(s, 1, Len(s) - 1)) ELSE s

Strip(s) == RStrip(LStrip(s))

\* str.replace(old, new) for a one-character old and an empty or one-character new
Replace(s, old, new) ==
    IF new = <<>> THEN SelectSeq(s, LAMBDA c : c # old)
    ELSE [k \in DOMAIN s |-> IF s[k] = old THEN new[1] ELSE s[k]]

-----------------------------------------------------------------------------
(* float(s) *)

RECURSIVE DigitsToInt(_)
DigitsToInt(ds) ==
    IF ds = <<>> THEN 0
    ELSE 10 * DigitsToInt(Slice(ds, 1, Len(ds) - 1)) + DigitVal(ds[Len(ds)])

RECURSIVE Canonical(_)
Canonical(x) ==
    IF x.scale > 0 /\ x.mant % 10 = 0
    THEN Canonical([mant |-> x.mant \div 10, scale |-> x.scale - 1])
    ELSE x

\* The decimal grammar of float(): surrounding whitespace is dropped, then an
\* optional sign, then digits with at most one "." and at least one digit.
\* None stands for ValueError.
ParseFloat(s) ==
    LET t == Strip(s)
        neg == t # <<>> /\ t[1] = "-"
        signed == t # <<>> /\ t[1] \in {"-", "+"}
        body == IF signed THEN Tail(t) ELSE t
        dots == {k \in DOMAIN body : body[k] = "."}
        ds == SelectSeq(body, LAMBDA c : c \in Digits)
        wellFormed == /\ \A k \in DOMAIN body : body[k] \in Digits \cup {"."}
                      /\ Cardinality(dots) <= 1
                      /\ ds # <<>>
        sc == IF dots = {} THEN 0 ELSE Len(body) - (CHOOSE k \in dots : TRUE)
        m == DigitsToInt(ds)
    IN  IF wellFormed
        THEN Some(Canonical([mant |-> IF neg THEN 0 - m ELSE m, scale |-> sc]))
        ELSE None

\* to_number_br with the two replacements in the other order
to_number_br_swapped(s) ==
    IF s = None \/ s[1] = <<>> THEN None
    ELSE ParseFloat(Replace(Replace(s[1], ",", <<".">>), ".", <<>>))

\* to_number_br(s: Optional[str]); the try/except turns ValueError into None
to_number_br(s) ==
    IF s = None \/ s[1] = <<>> THEN None
    ELSE ParseFloat(Replace(Replace(s[1], ".", <<>>), ",", <<".">>))

-----------------------------------------------------------------------------
(* The three patterns *)

Tokens == Digits \cup {"N", "C", "S", "$", " ", "\n", ".", ",", "-", "A"}

\* first index >= q of t that is not whitespace (Len(t) + 1 when there is none)
RECURSIVE SkipSpace(_, _)
SkipSpace(t, q) ==
    IF q <= Len(t) /\ IsSpace(t[q]) THEN SkipSpace(t, q + 1) ELSE q

\* last index of the longest run of characters of class cls starting at q
\* (q - 1 when the run is empty)
RECURSIVE RunEnd(_, _, _)
RunEnd(t, q, cls) ==
    IF q <= Len(t) /\ t[q] \in cls THEN RunEnd(t, q + 1, cls) ELSE q - 1

\* re.search tries each start position in turn: the leftmost one that matches
Leftmost(hits) == CHOOSE p \in hits : \A r \in hits : p <= r

\* CPF:\s*([\d.\-]+)
CpfClass == Digits \cup {".", "-"}

cpf_at(t, p) ==
    LET q == SkipSpace(t, p + 1)
        e == RunEnd(t, q, CpfClass)
    IN  IF t[p] = "C" /\ e >= q THEN Some(Slice(t, q, e)) ELSE None

\* group(1) of cpf_re.search(t), or None
cpf_re(t) ==
    LET hits == {p \in 1..Len(t) : cpf_at(t, p) # None}
    IN  IF hits = {} THEN None ELSE cpf_at(t, Leftmost(hits))

\* SAL[AA]RIO L[II]QUIDO\s*R\$\s*([\d.\,]+)
LiqClass == Digits \cup {".", ","}

liq_at(t, p) ==
    LET d == SkipSpace(t, p + 1)
        q == SkipSpace(t, d + 1)
        e == RunEnd(t, q, LiqClass)
    IN  IF t[p] = "S" /\ d <= Len(t) /\ t[d] = "$" /\ e >= q
        THEN Some(Slice(t, q, e)) ELSE None

\* group(1) of liq_re.search(t), or None
liq_re(t) ==
    LET hits == {p \in 1..Len(t) : liq_at(t, p) # None}
    IN  IF hits = {} THEN None ELSE liq_at(t, Leftmost(hits))

\* Nome do (?:Colaborador|Funcion[aa]rio)\s*\n?([^\n\r]+)
\* \s* is greedy and gives characters back one at a time; after it \n? takes
\* a line break when the capture can still start behind it.
NameClass == Tokens \ {"\n"}

\* where the capture starts when \s* takes k characters, or 0
nome_start(t, p, k) ==
    LET q == p + 1 + k
    IN  IF q + 1 <= Len(t) /\ IsNewline(t[q]) /\ t[q + 1] \in NameClass THEN q + 1
        ELSE IF q <= Len(t) /\ t[q] \in NameClass THEN q
        ELSE 0

nome_at(t, p) ==
    LET w == SkipSpace(t, p + 1) - (p + 1)
        ks == {k \in 0..w : nome_start(t, p, k) # 0}
        b == nome_start(t, p, CHOOSE k \in ks : \A j \in ks : j <= k)
    IN  IF t[p] = "N" /\ ks # {}
        THEN Some(Slice(t, b, RunEnd(t, b, NameClass))) ELSE None

\* group(1) of nome_re.search(t), or None
nome_re(t) ==
    LET hits == {p \in 1..Len(t) : nome_at(t, p) # None}
    IN  IF hits = {} THEN None ELSE nome_at(t, Leftmost(hits))

-----------------------------------------------------------------------------
(* extract_fields_from_text *)

\* m.group(1).strip() of a match object; on None it is an AttributeError
GroupStrip(m) ==
    IF m = None THEN [exc |-> TRUE, val |-> <<>>]
    ELSE [exc |-> FALSE, val |-> Strip(m[1])]

\* X.group(1).strip() without the "if X else" around it
FieldOrEmpty_unguarded(m) == GroupStrip(m)

\* (X.search(text).group(1).strip()) if X.search(text) else ""
FieldOrEmpty(m) ==
    IF m # None THEN GroupStrip(m) ELSE [exc |-> FALSE, val |-> <<>>]

extract_fields_from_text(text) ==
    LET nome == FieldOrEmpty(nome_re(text))
        cpf == FieldOrEmpty(cpf_re(text))
        liq == FieldOrEmpty(liq_re(text))
    IN  [exc |-> nome.exc \/ cpf.exc \/ liq.exc,
         nome |-> nome.val,
         cpf |-> cpf.val,
         valor_liquido |-> to_number_br(Some(liq.val))]

-----------------------------------------------------------------------------
(* Documents.  A document is what PdfReader makes of the uploaded bytes:    *)
(* parse = "ctorFail" when PdfReader(...) raises, "pagesFail" when the      *)
(* reader is built but len(reader.pages) raises (an encrypted file, a       *)
(* broken page tree), "ok" otherwise.  A page carries its text layer, and   *)
(* whether pdfminer fails on it (textFault) and whether copying or writing  *)
(* it fails (splitFault).                                                   *)

PageTexts ==
    { <<>>,
      <<"A">>,
      <<"N", "\n", "A">>,
      <<"C", "5">>,
      <<"S", "$", "0">> }

Pages == [text : PageTexts, textFault : BOOLEAN, splitFault : BOOLEAN]

RECURSIVE PageSeqs(_)
PageSeqs(n) ==
    IF n = 0 THEN {<<>>}
    ELSE LET shorter == PageSeqs(n - 1)
         IN  shorter \cup {Append(ps, pg) : ps \in shorter, pg \in Pages}

Docs ==
    {[parse |-> "ok", pages |-> ps] : ps \in PageSeqs(MaxPages)}
        \cup {[parse |-> "ctorFail", pages |-> <<>>],
              [parse |-> "pagesFail", pages |-> <<>>]}

NoDoc == [parse |-> "ctorFail", pages |-> <<>>]

\* the byte of a token in the written file
TokCode(c) ==
    CASE c = "N" -> 78 [] c = "C" -> 67 [] c = "S" -> 83 [] c = "$" -> 36
      [] c = " " -> 32 [] c = "\n" -> 10 [] c = "." -> 46 [] c = "," -> 44
      [] c = "-" -> 45 [] c = "A" -> 65
      [] OTHER -> 48 + DigitVal(c)

CodeTok(b) == CHOOSE c \in Tokens : TokCode(c) = b

\* PdfWriter.write of the pages added: a header byte, then each page as a
\* flag byte, the length of its text and the text
RECURSIVE WritePages(_)
WritePages(ps) ==
    IF ps = <<>> THEN <<>>
    ELSE <<IF ps[1].textFault THEN 1 ELSE 0, Len(ps[1].text)>>
            \o [k \in DOMAIN ps[1].text |-> TokCode(ps[1].text[k])]
            \o WritePages(Tail(ps))

WritePdf(ps) == <<37>> \o WritePages(ps)

\* the pages PdfReader finds in bytes that WritePdf wrote
RECURSIVE ReadPages(_)
ReadPages(bs) ==
    IF Len(bs) < 2 THEN <<>>
    ELSE LET n == bs[2]
         IN  <<[text |-> [k \in 1..n |-> CodeTok(bs[2 + k])],
                textFault |-> bs[1] = 1,
                splitFault |-> FALSE]>>
                \o ReadPages(Slice(bs, n + 3, Len(bs)))

ReadPdf(bs) == ReadPages(Tail(bs))

\* page_to_pdf_bytes without the "page_index < 0" test: a negative index
\* counts from the end, as Python's indexing does
page_to_pdf_bytes_noneg(d, page_index) ==
    LET at == IF page_index < 0 THEN Len(d.pages) + page_index + 1 ELSE page_index + 1
    IN  IF d.parse # "ok" THEN [exc |-> "Exception", bytes |-> <<>>]
        ELSE IF at < 1 \/ at > Len(d.pages) THEN [exc |-> "IndexError", bytes |-> <<>>]
        ELSE IF d.pages[at].splitFault THEN [exc |-> "Exception", bytes |-> <<>>]
        ELSE [exc |-> "", bytes |-> WritePdf(<<d.pages[at]>>)]

\* page_to_pdf_bytes(pdf_bytes, page_index): exc is "" on return, else the
\* class of what is raised.  "page_index < 0 or ..." raises before
\* len(reader.pages) is evaluated.
page_to_pdf_bytes(d, page_index) ==
    IF d.parse = "ctorFail" THEN [exc |-> "Exception", bytes |-> <<>>]
    ELSE IF page_index < 0 THEN [exc |-> "IndexError", bytes |-> <<>>]
    ELSE IF d.parse = "pagesFail" THEN [exc |-> "Exception", bytes |-> <<>>]
    ELSE IF page_index >= Len(d.pages) THEN [exc |-> "IndexError", bytes |-> <<>>]
    ELSE IF d.pages[page_index + 1].splitFault THEN [exc |-> "Exception", bytes |-> <<>>]
    ELSE [exc |-> "", bytes |-> WritePdf(<<d.pages[page_index + 1]>>)]

-----------------------------------------------------------------------------
(* base64 *)

B64Table ==
    << "A", "B", "C", "D", "E", "F", "G", "H", "I", "J", "K", "L", "M", "N", "O", "P",
       "Q", "R", "S", "T", "U", "V", "W", "X", "Y", "Z", "a", "b", "c", "d", "e", "f",
       "g", "h", "i", "j", "k", "l", "m", "n", "o", "p", "q", "r", "s", "t", "u", "v",
       "w", "x", "y", "z", "0", "1", "2", "3", "4", "5", "6", "7", "8", "9", "+", "/" >>

B64Char(n) == B64Table[n + 1]

B64Index(c) == (CHOOSE k \in 1..64 : B64Table[k] = c) - 1

\* base64.b64encode(bs).decode("utf-8")
RECURSIVE b64encode(_)
b64encode(bs) ==
    IF bs = <<>> THEN <<>>
    ELSE LET n == bs[1] * 65536
                  + (IF Len(bs) >= 2 THEN bs[2] * 256 ELSE 0)
                  + (IF Len(bs) >= 3 THEN bs[3] ELSE 0)
         IN  <<B64Char(n \div 262144), B64Char((n \div 4096) % 64),
               IF Len(bs) >= 2 THEN B64Char((n \div 64) % 64) ELSE "=",
               IF Len(bs) >= 3 THEN B64Char(n % 64) ELSE "=">>
              \o (IF Len(bs) > 3 THEN b64encode(Slice(bs, 4, Len(bs))) ELSE <<>>)

\* the bytes a base64 text stands for
RECURSIVE b64decode(_)
b64decode(cs) ==
    IF Len(cs) < 4 THEN <<>>
    ELSE LET v(k) == IF cs[k] = "=" THEN 0 ELSE B64Index(cs[k])
             n == v(1) * 262144 + v(2) * 4096 + v(3) * 64 + v(4)
         IN  <<n \div 65536>>
              \o (IF cs[3] = "=" THEN <<>> ELSE <<(n \div 256) % 256>>)
              \o (IF cs[4] = "=" THEN <<>> ELSE <<n % 256>>)
              \o b64decode(Slice(cs, 5, Len(cs)))

-----------------------------------------------------------------------------
(* The handlers *)

ContentTypes ==
    {None, Some(""), Some("application/pdf"), Some("Application/PDF"),
     Some("application/octet-stream"), Some("text/plain")}

Lower(ct) == IF ct = "Application/PDF" THEN "application/pdf" ELSE ct

_is_pdf_content_type(ct) ==
    IF ct = None \/ ct[1] = "" THEN TRUE
    ELSE Lower(ct[1]) \in {"application/pdf", "application/octet-stream"}

\* a response: the status, the detail of an HTTPException, the JSON list of
\* /extract, the bytes of /extract/page
Response(status, detail, json, bytes) ==
    [status |-> status, detail |-> detail, json |-> json, bytes |-> bytes]

Detail_NotPdf == "Envie um PDF."

NoResponse == Response(0, "", <<>>, <<>>)

HTTPException(status, detail) == Response(status, detail, <<>>, <<>>)

\* an exception no handler catches: the framework answers 500
Unhandled == Response(500, "Internal Server Error", <<>>, <<>>)

\* extract_text(io.BytesIO(data), page_numbers=[i]) or "" with the text of
\* the page before kept when it raises
page_text_stale(d, n) ==
    IF ~d.pages[n + 1].textFault THEN d.pages[n + 1].text
    ELSE IF n > 0 THEN d.pages[n].text ELSE <<>>

\* try: page_text = extract_text(io.BytesIO(data), page_numbers=[i]) or ""
\* except Exception: page_text = ""
page_text(d, n) ==
    IF d.pages[n + 1].textFault THEN <<>> ELSE d.pages[n + 1].text

\* try: page_pdf_b64 = b64encode(page_to_pdf_bytes(data, i)) except: ""
page_pdf_b64(d, n) ==
    LET page_pdf == page_to_pdf_bytes(d, n)
    IN  IF page_pdf.exc = "" THEN b64encode(page_pdf.bytes) ELSE <<>>

\* the entry with the 0-based page index as its page number
Entry_zero_based(n, fields, b64) ==
    [page |-> n, nome |-> fields.nome, cpf |-> fields.cpf,
     valor_liquido |-> fields.valor_liquido, page_pdf_base64 |-> b64]

\* {"page": i + 1, **fields, "page_pdf_base64": page_pdf_b64}
Entry(n, fields, b64) ==
    [page |-> n + 1, nome |-> fields.nome, cpf |-> fields.cpf,
     valor_liquido |-> fields.valor_liquido, page_pdf_base64 |-> b64]

\* the test of line 114 with "not r['valor_liquido']" for "is None"
AllEmpty_falsy(rs) ==
    \A k \in DOMAIN rs :
        /\ rs[k].nome = <<>>
        /\ rs[k].cpf = <<>>
        /\ \/ rs[k].valor_liquido = None
           \/ rs[k].valor_liquido[1].mant = 0

\* all(not r["nome"] and not r["cpf"] and r["valor_liquido"] is None ...)
AllEmpty(rs) ==
    \A k \in DOMAIN rs :
        /\ rs[k].nome = <<>>
        /\ rs[k].cpf = <<>>
        /\ rs[k].valor_liquido = None

\* the test that decides the 422 when an empty list is let through
RejectEmpty_nonempty(rs) == rs # <<>> /\ AllEmpty(rs)

\* if all(...): raise HTTPException(status_code=422, ...)
RejectEmpty(rs) == AllEmpty(rs)

\* /extract up to the loop: the content type, PdfReader(...) inside the try,
\* len(reader.pages) outside it
ExtractStart ==
    /\ pc = "start"
    /\ \E ct \in ContentTypes :
        IF ~_is_pdf_content_type(ct)
        THEN /\ outcome' = HTTPException(400, Detail_NotPdf)
             /\ pc' = "done"
             /\ UNCHANGED <<i, results>>
        ELSE IF doc.parse = "ctorFail"
        THEN /\ outcome' = HTTPException(400, "PDF invalido.")
             /\ pc' = "done"
             /\ UNCHANGED <<i, results>>
        ELSE IF doc.parse = "pagesFail"
        THEN /\ outcome' = Unhandled
             /\ pc' = "done"
             /\ UNCHANGED <<i, results>>
        ELSE /\ results' = <<>>
             /\ i' = 0
             /\ pc' = "loop"
             /\ UNCHANGED outcome
    /\ UNCHANGED <<doc, spc, sindex, sresp, call, ret>>

\* one turn of "for i in range(num_pages)"
ExtractPage ==
    /\ pc = "loop"
    /\ i < Len(doc.pages)
    /\ LET fields == extract_fields_from_text(page_text(doc, i))
       IN  IF fields.exc
           THEN /\ outcome' = Unhandled
                /\ pc' = "done"
                /\ UNCHANGED <<i, results>>
           ELSE /\ results' = Append(results, Entry(i, fields, page_pdf_b64(doc, i)))
                /\ i' = i + 1
                /\ UNCHANGED <<pc, outcome>>
    /\ UNCHANGED <<doc, spc, sindex, sresp, call, ret>>

\* after the loop: the 422 or JSONResponse(results)
ExtractReturn ==
    /\ pc = "loop"
    /\ i = Len(doc.pages)
    /\ outcome' = IF RejectEmpty(results)
                  THEN HTTPException(422, "Nao foi possivel extrair os campos.")
                  ELSE Response(200, "", results, <<>>)
    /\ pc' = "done"
    /\ UNCHANGED <<doc, i, results, spc, sindex, sresp, call, ret>>

\* index - 1 forgotten
ZeroBased_same(index) == index

\* page_to_pdf_bytes(data, index - 1)
ZeroBased(index) == index - 1

\* /extract/page; index is Query(..., ge=1), so a smaller one is answered 422
\* before the handler runs.  Neither handler awaits anything after
\* file.read(), so on the event loop this one never runs between two turns
\* of the loop of /extract.
extract_single_page ==
    /\ spc = "start"
    /\ pc # "loop"
    /\ \E index \in 0..(MaxPages + 1), ct \in ContentTypes :
        /\ sindex' = index
        /\ sresp' =
            IF index < 1 THEN HTTPException(422, "index: ge=1")
            ELSE IF ~_is_pdf_content_type(ct) THEN HTTPException(400, Detail_NotPdf)
            ELSE LET page_pdf == page_to_pdf_bytes(doc, ZeroBased(index))
                 IN  IF page_pdf.exc = "IndexError"
                     THEN HTTPException(404, "Pagina nao encontrada.")
                     ELSE IF page_pdf.exc # ""
                     THEN HTTPException(400, "Falha ao processar PDF.")
                     ELSE Response(200, "", <<>>, page_pdf.bytes)
    /\ spc' = "done"
    /\ UNCHANGED <<doc, pc, i, results, outcome, call, ret>>

NoCall == [fn |-> "none", arg |-> <<>>]

Init ==
    /\ doc \in Docs
    /\ pc = "start"
    /\ i = 0
    /\ results = <<>>
    /\ outcome = NoResponse
    /\ spc = "start"
    /\ sindex = 0
    /\ sresp = NoResponse
    /\ call = NoCall
    /\ ret = None

Next ==
    \/ ExtractStart
    \/ ExtractPage
    \/ ExtractReturn
    \/ extract_single_page

Spec == Init /\ [][Next]_vars

-----------------------------------------------------------------------------
(* The functions called directly, each on every argument within the bounds *)

TextAlphabet == {"N", "C", "S", "$", " ", "\n", "5", ",", "A"}

SampleTexts ==
    { <<"N", "\n", "A", " ", "A", "A">>,
      <<"C", " ", "1", "2", "3", ".", "4", "5", "6", "-", "0", "0">>,
      <<"S", " ", "$", " ", "1", ".", "2", "3", "4", ",", "5", "6">> }

NumAlphabet == {"0", "5", ".", ",", "-", " ", "A"}

SampleNumbers ==
    { <<"2", ".", "9", "8", "7", ",", "3", "2">>, <<"A", "A", "A">> }

NumberArgs ==
    {None} \cup {Some(s) : s \in StringsUpTo(NumAlphabet, MaxNumLen) \cup SampleNumbers}

FieldTexts == StringsUpTo(TextAlphabet, MaxTextLen) \cup SampleTexts

PageIndexes == (0 - 1)..(MaxPages + 1)

CallToNumberBr ==
    /\ call.fn = "to_number_br"
    /\ ret = None
    /\ ret' = Some(to_number_br(call.arg))
    /\ UNCHANGED <<doc, pc, i, results, outcome, spc, sindex, sresp, call>>

CallExtractFields ==
    /\ call.fn = "extract_fields_from_text"
    /\ ret = None
    /\ ret' = Some(extract_fields_from_text(call.arg))
    /\ UNCHANGED <<doc, pc, i, results, outcome, spc, sindex, sresp, call>>

CallPageToPdf ==
    /\ call.fn = "page_to_pdf_bytes"
    /\ ret = None
    /\ ret' = Some(page_to_pdf_bytes(call.arg.d, call.arg.page_index))
    /\ UNCHANGED <<doc, pc, i, results, outcome, spc, sindex, sresp, call>>

InitUnit ==
    /\ doc = NoDoc
    /\ pc = "idle"
    /\ i = 0
    /\ results = <<>>
    /\ outcome = NoResponse
    /\ spc = "idle"
    /\ sindex = 0
    /\ sresp = NoResponse
    /\ \/ \E a \in NumberArgs : call = [fn |-> "to_number_br", arg |-> a]
       \/ \E t \in FieldTexts : call = [fn |-> "extract_fields_from_text", arg |-> t]
       \/ \E d \in Docs, n \in PageIndexes :
            call = [fn |-> "page_to_pdf_bytes", arg |-> [d |-> d, page_index |-> n]]
    /\ ret = None

NextUnit ==
    \/ CallToNumberBr
    \/ CallExtractFields
    \/ CallPageToPdf

SpecUnit == InitUnit /\ [][NextUnit]_vars

-----------------------------------------------------------------------------
(* Properties *)

\* the fields of an entry or of a field record are all at their defaults
IsDefault(f) == f.nome = <<>> /\ f.cpf = <<>> /\ f.valor_liquido = None

SameFields(e, f) ==
    e.nome = f.nome /\ e.cpf = f.cpf /\ e.valor_liquido = f.valor_liquido

\* C1: a successful bulk extract of a document with N pages returns exactly N
\* entries, and the k-th entry has page number k (1..N ascending, none
\* skipped or repeated), whatever text or split faults the pages have; the
\* list under construction has the same shape at every turn of the loop.
C1_ReportPages ==
    /\ pc = "loop" => Len(results) = i
    /\ \A k \in DOMAIN results : results[k].page = k
    /\ outcome.status = 200 =>
        /\ Len(outcome.json) = Len(doc.pages)
        /\ \A k \in 1..Len(doc.pages) : outcome.json[k].page = k

C1_Witness ==
    /\ outcome.status = 200
    /\ Len(outcome.json) >= 2
    /\ doc.pages[1].textFault
    /\ doc.pages[2].splitFault

C3_FaultsAbsorbed ==
    /\ doc.parse = "ok" => outcome.status \in {0, 200, 400, 422}
    /\ outcome.status = 400 => outcome.detail = Detail_NotPdf \/ doc.parse = "ctorFail"
    /\ (pc = "done" /\ doc.parse = "ok" /\ outcome.detail # Detail_NotPdf) =>
            Len(results) = Len(doc.pages)
    /\ \A k \in DOMAIN results :
        LET pg == doc.pages[k]
            e == results[k]
        IN  /\ e.page = k
            /\ pg.textFault => IsDefault(e)
            /\ ~pg.textFault => SameFields(e, extract_fields_from_text(pg.text))
            /\ pg.splitFault => e.page_pdf_base64 = <<>>
            /\ ~pg.splitFault => b64decode(e.page_pdf_base64) = WritePdf(<<pg>>)

C3_Witness ==
    /\ pc = "done"
    /\ outcome.status = 200
    /\ Len(results) = 2
    /\ doc.pages[1].textFault /\ doc.pages[1].splitFault
    /\ doc.pages[1].text = <<"C", "5">>
    /\ IsDefault(results[1])
    /\ results[1].page_pdf_base64 = <<>>
    /\ results[2].cpf = <<"5">>
    /\ results[2].page_pdf_base64 # <<>>

\* C4: every bulk extract of an accepted upload ends as a report (200),
\* InvalidDocument (400) or EmptyExtraction (422), and a document whose parse
\* fails, in the reader's construction or in counting its pages, ends as
\* InvalidDocument.
C4_ThreeOutcomes ==
    (pc = "done" /\ outcome.detail # Detail_NotPdf) =>
        /\ outcome.status \in {200, 400, 422}
        /\ doc.parse # "ok" => outcome = HTTPException(400, "PDF invalido.")

\* C5 as claimed: a document that cannot be parsed fails with InvalidDocument
\* whatever the index; one that parses with N pages fails with PageOutOfRange
\* for an index outside [0, N) and otherwise returns the one-page document
\* holding that page.
C5_Original ==
    (call.fn = "page_to_pdf_bytes" /\ ret # None) =>
        LET d == call.arg.d
            n == call.arg.page_index
            r == ret[1]
        IN  /\ d.parse # "ok" => r.exc = "Exception"
            /\ (d.parse = "ok" /\ (n < 0 \/ n >= Len(d.pages))) => r.exc = "IndexError"
            /\ (d.parse = "ok" /\ n >= 0 /\ n < Len(d.pages) /\ ~d.pages[n + 1].splitFault) =>
                    /\ r.exc = ""
                    /\ ReadPdf(r.bytes) = <<d.pages[n + 1]>>

\* C5 amended: when the reader cannot be built the call fails with a parse
\* fault (InvalidDocument); otherwise a negative index fails with
\* PageOutOfRange (IndexError), also when the pages cannot be counted;
\* otherwise pages that cannot be counted fail with a parse fault; with N
\* pages an index >= N fails with PageOutOfRange; a page that cannot be copied
\* fails with a fault that is not PageOutOfRange; otherwise the result is the
\* one-page document holding page pageIndex.
C5_Amended ==
    (call.fn = "page_to_pdf_bytes" /\ ret # None) =>
        LET d == call.arg.d
            n == call.arg.page_index
            r == ret[1]
        IN  /\ d.parse = "ctorFail" => r.exc = "Exception"
            /\ (d.parse # "ctorFail" /\ n < 0) => r.exc = "IndexError"
            /\ (d.parse = "pagesFail" /\ n >= 0) => r.exc = "Exception"
            /\ (d.parse = "ok" /\ n >= Len(d.pages)) => r.exc = "IndexError"
            /\ (d.parse = "ok" /\ n >= 0 /\ n < Len(d.pages)) =>
                    IF d.pages[n + 1].splitFault
                    THEN r.exc = "Exception"
                    ELSE /\ r.exc = ""
                         /\ Len(ReadPdf(r.bytes)) = 1
                         /\ ReadPdf(r.bytes) = <<d.pages[n + 1]>>
            /\ r.exc # "" => r.bytes = <<>>

C5_Witness ==
    /\ call.fn = "page_to_pdf_bytes"
    /\ ret # None
    /\ call.arg.d.parse = "pagesFail"
    /\ call.arg.page_index < 0
    /\ ret[1].exc = "IndexError"

\* C6: the single-page flow with 1-based page number k answers what
\* splitPage(document, k - 1) gives: the page's bytes (200), not found (404)
\* for PageOutOfRange, a client error (400) for any other fault.  For k within
\* the pages it answers the bytes that page_pdf_base64 of entry k of the bulk
\* flow stands for (and 400 where that entry is empty), for k beyond the
\* pages 404, for a document that does not parse 400.  Its answer carries no
\* fields and it leaves the bulk flow's list alone.
C6_Inv ==
    (spc = "done" /\ sindex >= 1 /\ sresp.detail # Detail_NotPdf) =>
        LET r == page_to_pdf_bytes(doc, sindex - 1)
        IN  /\ r.exc = "" => sresp = Response(200, "", <<>>, r.bytes)
            /\ r.exc = "IndexError" => sresp.status = 404
            /\ r.exc = "Exception" => sresp.status = 400
            /\ (doc.parse = "ok" /\ sindex > Len(doc.pages)) => sresp.status = 404
            /\ doc.parse # "ok" => sresp.status = 400
            /\ sresp.json = <<>>
            /\ sindex \in DOMAIN results =>
                IF results[sindex].page_pdf_base64 # <<>>
                THEN /\ sresp.status = 200
                     /\ sresp.bytes = b64decode(results[sindex].page_pdf_base64)
                     /\ ReadPdf(sresp.bytes) = <<doc.pages[sindex]>>
                ELSE sresp.status = 400

C7_Normalize ==
    (call.fn = "to_number_br" /\ ret # None) =>
        LET a == call.arg
            r == ret[1]
        IN  /\ (a = None \/ a = Some(<<>>)) => r = None
            /\ (a # None /\ a # Some(<<>>)) =>
                LET noDots == SelectSeq(a[1], LAMBDA c : c # ".")
                    dotted == [k \in DOMAIN noDots |->
                                 IF noDots[k] = "," THEN "." ELSE noDots[k]]
                IN  r = ParseFloat(dotted)
            /\ a = Some(<<"2", ".", "9", "8", "7", ",", "3", "2">>) =>
                r = Some([mant |-> 298732, scale |-> 2])
            /\ a = Some(<<"A", "A", "A">>) => r = None
            /\ a = Some(<<"0", ",", "0">>) => r = Some([mant |-> 0, scale |-> 0])
            /\ a = Some(<<"5", ".", "5">>) => r = Some([mant |-> 55, scale |-> 0])
            /\ a = Some(<<"5", ",", "5">>) => r = Some([mant |-> 55, scale |-> 1])

C7_Witness ==
    /\ call.fn = "to_number_br"
    /\ call.arg = Some(<<"2", ".", "9", "8", "7", ",", "3", "2">>)
    /\ ret = Some(Some([mant |-> 298732, scale |-> 2]))

\* C8: extractFields never raises, for any text including the empty one; a
\* field whose pattern does not match takes its default whether or not the
\* other patterns match, a field whose pattern matches is decided by the first
\* match of its own pattern alone, and a text with none of the three labels
\* gives the three defaults.
C8_Fields ==
    (call.fn = "extract_fields_from_text" /\ ret # None) =>
        LET t == call.arg
            f == ret[1]
            hasLabel == \E k \in DOMAIN t : t[k] \in {"N", "C", "S"}
        IN  /\ ~f.exc
            /\ nome_re(t) = None => f.nome = <<>>
            /\ nome_re(t) # None => f.nome = Strip(nome_re(t)[1])
            /\ cpf_re(t) = None => f.cpf = <<>>
            /\ cpf_re(t) # None => f.cpf = Strip(cpf_re(t)[1])
            /\ liq_re(t) = None => f.valor_liquido = None
            /\ liq_re(t) # None => f.valor_liquido = to_number_br(Some(Strip(liq_re(t)[1])))
            /\ ~hasLabel => IsDefault(f)

C8_Witness ==
    /\ call.fn = "extract_fields_from_text"
    /\ ret # None
    /\ call.arg = <<"N", "A", "\n", "C">>
    /\ ret[1].nome = <<"A">>
    /\ ret[1].cpf = <<>>
    /\ ret[1].valor_liquido = None

\* the rest of the line that position q lies on, from q
RestOfLine(t, q) == Slice(t, q, RunEnd(t, q, NameClass))

\* the line after the one position q lies on (empty when there is none)
NextLine(t, q) == RestOfLine(t, RunEnd(t, q, NameClass) + 2)

\* C9: the name is taken from the name label's own line or from the line
\* directly after it, never from a later line: it is empty, or what follows a
\* label on its line, or the line after a label.
C9_NameSameLine ==
    (call.fn = "extract_fields_from_text" /\ ret # None) =>
        LET t == call.arg
            name == ret[1].nome
        IN  \/ name = <<>>
            \/ \E p \in DOMAIN t :
                /\ t[p] = "N"
                /\ \/ name = Strip(RestOfLine(t, p + 1))
                   \/ name = Strip(NextLine(t, p + 1))

\* C10: a document that parses with zero pages is answered 422
\* (EmptyExtraction), and no successful answer of the bulk flow is an empty
\* report.
C10_ZeroPages ==
    /\ (pc = "done" /\ doc.parse = "ok" /\ doc.pages = <<>>
            /\ outcome.detail # Detail_NotPdf) => outcome.status = 422
    /\ outcome.status = 200 => outcome.json # <<>>

C10_Witness ==
    /\ pc = "done"
    /\ doc.parse = "ok"
    /\ doc.pages = <<>>
    /\ outcome.status = 422

====
